---- MODULE Spec2Model ----
(***************************************************************************)
(* Chat session engine of the counselling backend: message submission     *)
(* over the websocket consumer (save_message), the session life cycle,    *)
(* per-minute billing against the requester's wallet, the periodic        *)
(* inactivity sweep and the periodic accrual command.                     *)
(*                                                                         *)
(* Time is counted in whole seconds.  One chat row, one requester wallet, *)
(* one optional scheduled appointment (UpcomingSession) are modelled.     *)
(***************************************************************************)
EXTENDS Integers, Naturals, Sequences, FiniteSets, TLC

\* ---------------------------------------------------------------- bounds
\* number of clock advances in one behaviour
MaxAdvances == 1
\* number of rows the message table may hold
MaxMsgs == 2
\* frames handled plus frames in flight on the two connections
MaxLog == 2

\* wallet recharges in one behaviour
MaxRecharges == 1
MaxUsages == 1

\* ------------------------------------------------------ program constants
CHAT_RATE_PER_MINUTE == 1
SECONDS_PER_MINUTE == 60
FIVE_MINUTES == 300
ONE_HOUR == 3600
DEDUP_WINDOW == 2
MIN_DURATION == 1
MAX_MESSAGE_LENGTH == 5000
CALL_RATE_PER_MINUTE == 5
MIN_CALL_BALANCE == 100
MIN_CHAT_BALANCE == 50

\* None of a nullable DateTimeField (times are >= 0)
NULL == 0 - 1

\* ------------------------------------------------------------- identities
\* the chat's user (requester); fixed for the life of the chat
ChatUser == "user"
\* accounts that may own a counsellorprofile
Staff == {"c1", "c2"}
Accounts == {ChatUser} \cup Staff
\* who holds a counsellorprofile: nobody, or the counsellor "c1"
CounsellorSets == {{}, {"c1"}}
NoUser == "none"
\* scope["user"] of a websocket that presented no valid token
Anonymous == "anonymous"
\* whoever may open a websocket to the chat
Credentials == Accounts \cup {Anonymous}

\* websocket connections that deliver frames to save_message
Conns == {"ws1", "ws2"}
NoConn == "free"

\* message texts and client_message_id values carried by inbound frames
\* a text is given by its length and the whitespace before and after it
Hi == [lead |-> 0, len |-> 2, trail |-> 0]
NoText == [lead |-> 0, len |-> 0, trail |-> 0]
Texts == {Hi}
ClientIds == {"none", "k1"}
\* two different texts and two different keys for the duplicate tests
Bye == [lead |-> 0, len |-> 3, trail |-> 0]
DedupTexts == {Hi, Bye}
DedupIds == {"none", "k1", "k2"}
\* frames taken one at a time carry no client_message_id: the keyed duplicate
\* test is exercised by the concurrent specification
SerialIds == {"none"}

\* clock steps: one second, and the two sides of the five-minute threshold
Jumps == {1, FIVE_MINUTES, FIVE_MINUTES + 1}
\* clock steps of the concurrent gateway: inside and outside the windows
ConcJumps == {1, FIVE_MINUTES + 1}
\* clock steps around the one-hour threshold
IdleJumps == {ONE_HOUR, ONE_HOUR + 1}

\* clock steps around the two-second window of the text fallback
DedupJumps == {DEDUP_WINDOW, DEDUP_WINDOW + 1}

\* requests to WalletUsageView: one minute of chat, forty minutes of call
Usages == {[service |-> "chat", minutes |-> 1], [service |-> "call", minutes |-> 40]}

\* amounts a requester may add to the wallet
RechargeAmounts == {5}

\* wallet_minutes the requester may start with
InitialWallets == {1, 200}

\* lengths of the text between the leading and trailing whitespace of a
\* frame: nothing, the limit, one more than the limit
Lengths == {0, MAX_MESSAGE_LENGTH, MAX_MESSAGE_LENGTH + 1}
\* whitespace characters on each side of the text of a frame
Paddings == {0, 1}
\* data["message"] of inbound frames: the length of the text and the
\* whitespace before and after it
RawTexts ==
    {[lead |-> a, len |-> n, trail |-> a] : a \in Paddings, n \in Lengths}

\* instants for started_at, ended_at and the clock of the billing functions:
\* equal times, the two sides of one minute and of two minutes, and a gap
\* of more than an hour
Times == {0, 1, 59, 60, 61, 120, 121, 3700}

Statuses == {"queued", "active", "inactive", "completed", "cancelled"}

VARIABLES
    now,          \* timezone.now(), seconds
    ticks,        \* clock advances taken so far
    chat,         \* the Chat row
    messages,     \* the ChatMessage table, in insertion order
    wallet,       \* UserProfile.wallet_minutes of the chat's user
    counsellors,  \* accounts with a counsellorprofile
    upcoming,     \* UpcomingSession of the (user, counsellor) pair
    lock,         \* holder of the chat row lock (select_for_update)
    pc,           \* per connection: position inside receive/save_message
    arg,          \* per connection: the frame being processed
    debited,      \* history: total taken from the wallet for this chat
    owed_at_billing, \* history: amount owed when billing_processed_at was set
    last,         \* history: the operation that produced this state
    ledger,       \* history: opening balance + credits - debits reported
    events,       \* history: what the gateway committed and sent, in order
    jobs,         \* rows read, not yet written back, by the unlocked writers
    conn          \* per connection: socket state, account and joined groups

vars == <<now, ticks, chat, messages, wallet, counsellors, upcoming, lock,
          pc, arg, debited, owed_at_billing, last, ledger, events, jobs,
          conn>>

\* ------------------------------------------------------------ billing.py
\* ceil(seconds / 60) on non-negative whole seconds
CeilMinutes(seconds) == (seconds + SECONDS_PER_MINUTE - 1) \div SECONDS_PER_MINUTE

\* variant of the duration that drops the started minute instead of charging it
duration_rounded_down(c, t) ==
    IF c.started_at = NULL THEN 0
    ELSE LET end_time == IF c.ended_at # NULL THEN c.ended_at ELSE t IN
         IF end_time <= c.started_at THEN 0
         ELSE (end_time - c.started_at) \div SECONDS_PER_MINUTE

\* calculate_chat_duration_minutes(chat) evaluated at time t
calculate_chat_duration_minutes(c, t) ==
    IF c.started_at = NULL THEN 0
    ELSE LET end_time == IF c.ended_at # NULL THEN c.ended_at ELSE t IN
         IF end_time <= c.started_at THEN 0
         ELSE LET duration_minutes == CeilMinutes(end_time - c.started_at) IN
              IF duration_minutes = 0 /\ c.ended_at # NULL /\ c.started_at # NULL
              THEN 1 ELSE duration_minutes

\* calculate_chat_billing(chat) evaluated at time t
calculate_chat_billing(c, t) ==
    calculate_chat_duration_minutes(c, t) * CHAT_RATE_PER_MINUTE

\* get_chat_estimated_cost(chat) evaluated at time t
get_chat_estimated_cost(c, t) ==
    [duration_minutes |-> calculate_chat_duration_minutes(c, t),
     estimated_amount |-> calculate_chat_billing(c, t)]

\* variant of deduct_chat_billing without the "sufficient balance" test
deduct_unchecked(balance, billing_amount) ==
    IF billing_amount <= 0
    THEN [ok |-> TRUE, wallet |-> balance]
    ELSE [ok |-> TRUE, wallet |-> balance - billing_amount]

\* deduct_chat_billing(chat, billing_amount) on a wallet holding balance
deduct_chat_billing(balance, billing_amount) ==
    IF billing_amount <= 0
    THEN [ok |-> TRUE, wallet |-> balance]
    ELSE IF balance < billing_amount
         THEN [ok |-> FALSE, wallet |-> balance]
         ELSE [ok |-> TRUE, wallet |-> balance - billing_amount]

\* variant of the "Skip if already billed" test that never skips
never_skipped(c) == FALSE

\* calculate_and_deduct_chat_billing: "Skip if already billed"
skip_if_billed(c) == c.is_billed

\* outcome of a settlement that did not run
NoSettle == [ran |-> FALSE, ok |-> TRUE, amount |-> 0]

\* calculate_and_deduct_chat_billing(chat) at time t; returns the row as
\* written, the wallet as written and the boolean it reports
calculate_and_deduct_chat_billing(c, balance, t) ==
    IF skip_if_billed(c)
    THEN [chat |-> c, wallet |-> balance,
          settle |-> [ran |-> TRUE, ok |-> TRUE, amount |-> 0]]
    ELSE IF c.started_at = NULL
    THEN [chat |-> [c EXCEPT !.is_billed = TRUE,
                             !.billing_processed_at = t,
                             !.duration_minutes = 0,
                             !.billed_amount = 0],
          wallet |-> balance,
          settle |-> [ran |-> TRUE, ok |-> TRUE, amount |-> 0]]
    ELSE
    LET c1 == IF c.ended_at = NULL THEN [c EXCEPT !.ended_at = t] ELSE c
        duration_minutes == calculate_chat_duration_minutes(c1, t)
        billing_amount == calculate_chat_billing(c1, t)
        ded == IF billing_amount > 0
               THEN deduct_chat_billing(balance, billing_amount)
               ELSE [ok |-> TRUE, wallet |-> balance]
    IN  IF ded.ok \/ billing_amount = 0
        THEN [chat |-> [c1 EXCEPT !.duration_minutes = duration_minutes,
                                  !.billed_amount = billing_amount,
                                  !.is_billed = TRUE,
                                  !.billing_processed_at = t],
              wallet |-> ded.wallet,
              settle |-> [ran |-> TRUE, ok |-> TRUE, amount |-> billing_amount]]
        ELSE [chat |-> [c1 EXCEPT !.duration_minutes = duration_minutes,
                                  !.billed_amount = billing_amount],
              wallet |-> balance,
              settle |-> [ran |-> TRUE, ok |-> FALSE, amount |-> billing_amount]]

\* Chat.save(): persists the row and, for a completed chat that is not yet
\* billed, runs the settlement
ChatSave(c, balance, t) ==
    IF c.status = "completed" /\ ~c.is_billed
    THEN calculate_and_deduct_chat_billing(c, balance, t)
    ELSE [chat |-> c, wallet |-> balance, settle |-> NoSettle]

\* Chat.mark_inactive(): the transition of the counsellor-message branch
mark_inactive(c, t) ==
    [c EXCEPT !.status = "inactive",
              !.ended_at = IF @ = NULL THEN c.last_user_activity + FIVE_MINUTES ELSE @,
              !.started_at = IF @ = NULL THEN c.created_at ELSE @]

\* ------------------------------------------------------------ history
\* the amount owed recorded when a settlement sets billing_processed_at
OwedAtBilling(r) ==
    IF r.settle.ran /\ ~chat.is_billed /\ r.chat.is_billed
    THEN r.settle.amount ELSE owed_at_billing

\* no estimate was computed by the operation
NoEstimate == [duration_minutes |-> 0, estimated_amount |-> 0]

Op(name, actor, result, activated, settle) ==
    [op |-> name, actor |-> actor, result |-> result, activated |-> activated,
     settle |-> settle, from |-> chat.status, cmid |-> "none", raced |-> FALSE,
     estimate |-> NoEstimate, text |-> NoText, session_error |-> "none"]

\* ------------------------------------------------------------ initial state
\* ChatCreateView.post: a queued chat without counsellor, created now
NewChat ==
    [user |-> ChatUser, status |-> "queued", counsellor |-> NoUser,
     created_at |-> 0,
     started_at |-> NULL, ended_at |-> NULL, last_user_activity |-> NULL,
     billed_amount |-> 0, duration_minutes |-> 0, is_billed |-> FALSE,
     billing_processed_at |-> NULL]

\* a connection that is not processing a frame
NoFrame ==
    [sender |-> NoUser, text |-> Hi, cmid |-> "none", raced |-> FALSE,
     id |-> NULL, activated |-> FALSE]

\* a websocket whose connect() ran to self.accept(); the specifications that
\* take the sender of a frame as an input start from such connections
Accepted == [state |-> "joined", user |-> NoUser, groups |-> {"chat"}]

\* a command or view that holds no row in memory; n counts its completed runs
IdleJob == [busy |-> FALSE, row |-> NewChat, balance |-> 0, amount |-> 0, n |-> 0]

\* no management command or wallet view has read a row it has yet to write
NoJobs == [sweep |-> IdleJob, accrue |-> IdleJob, recharge |-> IdleJob,
           accept |-> IdleJob, usage |-> IdleJob]

\* the database and the workers before any operation
Start ==
    /\ now = 0
    /\ ticks = 0
    /\ chat = NewChat
    /\ messages = <<>>
    /\ wallet \in InitialWallets
    /\ counsellors \in CounsellorSets
    /\ upcoming \in {"none", "scheduled"}
    /\ lock = NoConn
    /\ pc = [p \in Conns |-> "idle"]
    /\ arg = [p \in Conns |-> NoFrame]
    /\ debited = 0
    /\ owed_at_billing = 0
    /\ last = Op("create", ChatUser, "created", FALSE, NoSettle)
    /\ ledger = wallet
    /\ events = <<>>
    /\ jobs = NoJobs

Init ==
    /\ Start
    /\ conn = [p \in Conns |-> Accepted]

\* ------------------------------------------------------------ the clock
Advance(d) ==
    /\ ticks < MaxAdvances
    /\ now' = now + d
    /\ ticks' = ticks + 1
    /\ last' = Op("advance", NoUser, "tick", FALSE, NoSettle)
    /\ UNCHANGED <<events, jobs, conn>>
    /\ UNCHANGED <<chat, messages, wallet, counsellors, upcoming, lock, pc, arg,
                   debited, ledger, owed_at_billing>>


\* ------------------------------------------------------------ consumers.py
\* variant of the access check that lets every account in
access_for_all(c, u) == TRUE

\* get_chat_and_check_access: the chat's user or its assigned counsellor
has_access(c, u) ==
    \/ u = c.user
    \/ (c.counsellor # NoUser /\ c.counsellor = u)

\* Model.save(update_fields=fields): only the named columns reach the row
SaveFields(row, mem, fields) ==
    [f \in DOMAIN row |-> IF f \in fields THEN mem[f] ELSE row[f]]

\* variant of the auto-assignment that never finds a counsellor
no_counsellor_found(avail) == NoUser

\* User.objects.filter(counsellorprofile__isnull=False).first()
first_counsellor(avail) ==
    IF avail = {} THEN NoUser
    ELSE IF "c1" \in avail THEN "c1" ELSE "c2"

\* variant of the duplicate test that never finds an earlier row
duplicate_unnoticed(msgs, sender, text, cmid, t) == FALSE

\* variant of the duplicate test that applies the text fallback to frames
\* with a key as well
duplicate_by_text_too(msgs, sender, text, cmid, t) ==
    \/ /\ cmid # "none"
       /\ \E i \in 1..Len(msgs) :
             /\ msgs[i].sender = sender
             /\ msgs[i].client_message_id = cmid
    \/ \E i \in 1..Len(msgs) :
          /\ msgs[i].sender = sender
          /\ msgs[i].text = text
          /\ msgs[i].created_at >= t - DEDUP_WINDOW

\* duplicate test of save_message for a frame (sender, text, cmid) at time t
is_duplicate(msgs, sender, text, cmid, t) ==
    IF cmid # "none"
    THEN \E i \in 1..Len(msgs) :
            /\ msgs[i].sender = sender
            /\ msgs[i].client_message_id = cmid
    ELSE \E i \in 1..Len(msgs) :
            /\ msgs[i].sender = sender
            /\ msgs[i].text = text
            /\ msgs[i].created_at >= t - DEDUP_WINDOW

\* save_message, branch "if is_user_sender": the row as persisted, whether
\* the chat was activated, and the settlement run by a completing save
user_message(c, balance, avail, t) ==
    LET previous_activity == c.last_user_activity
        m1 == [c EXCEPT !.last_user_activity = t]
        m2 == IF /\ previous_activity # NULL
                 /\ m1.status \in {"active", "inactive"}
                 /\ previous_activity < t - FIVE_MINUTES
                 /\ m1.status = "inactive"
              THEN [m1 EXCEPT !.status = "active", !.ended_at = NULL]
              ELSE m1
        closing == /\ m2.status = "active"
                   /\ m2.last_user_activity # NULL
                   /\ m2.last_user_activity < t - ONE_HOUR
        m3 == IF closing
              THEN [m2 EXCEPT !.status = "completed",
                              !.ended_at = IF @ = NULL THEN t ELSE @,
                              !.started_at = IF @ = NULL THEN c.created_at ELSE @]
              ELSE m2
        row3 == IF closing
                THEN SaveFields(c, m3, {"status", "ended_at", "started_at",
                                        "last_user_activity"})
                ELSE c
        saved3 == IF closing THEN ChatSave(row3, balance, t)
                  ELSE [chat |-> row3, wallet |-> balance, settle |-> NoSettle]
        old_status == m3.status
        activating == old_status \in {"queued", "completed", "inactive", "cancelled"}
        m4 == IF old_status = "queued"
              THEN [m3 EXCEPT !.counsellor = IF @ = NoUser
                                              THEN first_counsellor(avail) ELSE @,
                              !.started_at = IF @ = NULL THEN t ELSE @]
              ELSE m3
        m5 == [m4 EXCEPT !.status = "active", !.ended_at = NULL]
        fields == {"status", "ended_at", "last_user_activity"}
                  \cup (IF old_status = "queued" /\ m5.counsellor # NoUser
                        THEN {"counsellor"} ELSE {})
                  \cup (IF old_status = "queued" /\ m5.started_at # NULL
                        THEN {"started_at"} ELSE {})
    IN  IF activating
        THEN [chat |-> SaveFields(saved3.chat, m5, fields),
              wallet |-> saved3.wallet, settle |-> saved3.settle,
              activated |-> TRUE]
        ELSE [chat |-> saved3.chat, wallet |-> saved3.wallet,
              settle |-> saved3.settle, activated |-> FALSE]

\* variant of five_minutes_ago that is one second late
five_minutes_ago_late(t) == t - FIVE_MINUTES + 1

\* five_minutes_ago = now - timedelta(minutes=5) of the counsellor branch
five_minutes_ago(t) == t - FIVE_MINUTES

\* save_message, branch "else" (the counsellor is sending)
counsellor_message(c, balance, t) ==
    IF /\ c.status = "active"
       /\ c.last_user_activity # NULL
       /\ c.last_user_activity < five_minutes_ago(t)
    THEN LET m == [c EXCEPT !.status = "inactive",
                            !.ended_at = IF @ = NULL
                                         THEN c.last_user_activity + FIVE_MINUTES
                                         ELSE @,
                            !.started_at = IF @ = NULL THEN c.created_at ELSE @]
             row == SaveFields(c, m, {"status", "ended_at", "started_at"})
         IN  [chat |-> row, wallet |-> balance, settle |-> NoSettle,
              activated |-> FALSE]
    ELSE [chat |-> c, wallet |-> balance, settle |-> NoSettle, activated |-> FALSE]

\* variant of save_message that runs the requester's branch for every sender
save_message_for_any_sender(c, sender, balance, avail, t) ==
    user_message(c, balance, avail, t)

\* save_message after the duplicate test: status logic of either branch
save_message(c, sender, balance, avail, t) ==
    IF c.user = sender
    THEN user_message(c, balance, avail, t)
    ELSE counsellor_message(c, balance, t)

\* "Auto-start associated UpcomingSession if chat becomes active"
on_activated(session, activated, c) ==
    IF activated /\ c.counsellor # NoUser /\ c.counsellor = "c1"
       /\ session = "scheduled"
    THEN "in_progress" ELSE session

\* receive: "if client_message_id:" guards the acknowledgement
ack_wanted(cmid) == cmid # "none"

\* variant of receive that broadcasts before it acknowledges
after_reordered(step, cmid, activated) ==
    CASE step = "checked" -> "acked"
      [] step = "acked" -> IF ack_wanted(cmid) THEN "saved"
                           ELSE IF activated THEN "notify" ELSE "idle"
      [] step = "saved" -> IF activated THEN "notify" ELSE "idle"
      [] OTHER -> "idle"

\* variant of receive that notifies the counsellors for every new message
after_always_notifying(step, cmid, activated) ==
    CASE step = "checked" -> IF ack_wanted(cmid) THEN "saved" ELSE "acked"
      [] step = "saved" -> "acked"
      [] step = "acked" -> "notify"
      [] OTHER -> "idle"

\* receive: the statement a frame that created a row reaches after each step:
\* save_message returned ("checked"), the acknowledgement ("saved"), the
\* group broadcast ("acked"), the counselor_queue broadcast ("notify")
after(step, cmid, activated) ==
    CASE step = "checked" -> IF ack_wanted(cmid) THEN "saved" ELSE "acked"
      [] step = "saved" -> "acked"
      [] step = "acked" -> IF activated THEN "notify" ELSE "idle"
      [] OTHER -> "idle"

\* the frame a connection keeps while receive has statements left to run
Remaining(frame, step) == IF step = "idle" THEN NoFrame ELSE frame

\* variant of the row lock that never makes a connection wait
lock_ignored(p) == TRUE

\* select_for_update(): the chat row lock is free for connection p
lock_free(p) == lock = NoConn

\* an entry of the gateway's history
Event(kind, p, id, status, cmid) ==
    [kind |-> kind, conn |-> p, id |-> id, status |-> status, cmid |-> cmid]

\* variant of receive that also broadcasts a duplicate to the chat group
duplicate_rebroadcast(p, cmid) ==
    <<Event("ack", p, NULL, "duplicate", cmid),
      Event("message", p, NULL, "sent", cmid)>>

\* receive, "if result is None": what the gateway sends for a duplicate
duplicate_reply(p, cmid) == <<Event("ack", p, NULL, "duplicate", cmid)>>

\* frames that were answered with an error or whose save_message has returned
Handled ==
    Cardinality({i \in 1..Len(events) :
                    \/ events[i].kind \in {"saved", "error"}
                    \/ (events[i].kind = "ack" /\ events[i].status = "duplicate")})

\* receive: a frame arrives on an accepted connection and save_message is
\* called; the call waits for the chat row lock
SM_Receive(p, sender, text, cmid) ==
    /\ pc[p] = "idle"
    /\ has_access(chat, sender)
    /\ Handled + Cardinality({q \in Conns : pc[q] # "idle"}) < MaxLog
    /\ pc' = [pc EXCEPT ![p] = "waiting"]
    /\ arg' = [arg EXCEPT ![p] =
                 [NoFrame EXCEPT !.sender = sender, !.text = text, !.cmid = cmid,
                                 !.raced = \E q \in Conns \ {p} :
                                              /\ pc[q] \in {"waiting", "checked"}
                                              /\ arg[q].sender = sender
                                              /\ arg[q].cmid = cmid]]
    /\ last' = Op("receive", sender, "waiting", FALSE, NoSettle)
    /\ UNCHANGED <<now, ticks, chat, messages, wallet, counsellors, upcoming,
                   lock, debited, ledger, owed_at_billing, events, jobs, conn>>

\* save_message: the row lock is taken and the duplicate test runs; for a
\* duplicate it returns None, the transaction ends and receive acknowledges
\* the frame with status "duplicate" and no message id
SM_Lock(p) ==
    /\ pc[p] = "waiting"
    /\ lock_free(p)
    /\ IF is_duplicate(messages, arg[p].sender, arg[p].text, arg[p].cmid, now)
       THEN /\ pc' = [pc EXCEPT ![p] = "idle"]
            /\ arg' = [arg EXCEPT ![p] = NoFrame]
            /\ lock' = NoConn
            /\ events' = events \o duplicate_reply(p, arg[p].cmid)
            /\ last' = [Op("submit", arg[p].sender, "duplicate", FALSE, NoSettle)
                          EXCEPT !.cmid = arg[p].cmid, !.raced = arg[p].raced]
       ELSE /\ pc' = [pc EXCEPT ![p] = "checked"]
            /\ lock' = p
            /\ last' = Op("lock", arg[p].sender, "locked", FALSE, NoSettle)
            /\ UNCHANGED <<arg, events>>
    /\ UNCHANGED <<now, ticks, chat, messages, wallet, counsellors, upcoming,
                   debited, ledger, owed_at_billing, jobs, conn>>

\* variant of the end of save_message that creates no row
create_nothing(msgs, sender, text, cmid, t) == msgs

\* ChatMessage.objects.create(chat, sender, text, client_message_id), the
\* last database write of save_message
create_message(msgs, sender, text, cmid, t) ==
    Append(msgs, [id |-> Len(msgs) + 1, sender |-> sender, text |-> text,
                  client_message_id |-> cmid, created_at |-> t])

\* save_message: status logic, ChatMessage.objects.create, commit; receive
\* goes on to the acknowledgement, which it sends only "if client_message_id"
SM_Commit(p) ==
    /\ pc[p] = "checked"
    /\ LET r == save_message(chat, arg[p].sender, wallet, counsellors, now)
           msg == [id |-> Len(messages) + 1, sender |-> arg[p].sender,
                   text |-> arg[p].text, client_message_id |-> arg[p].cmid,
                   created_at |-> now]
       IN  /\ chat' = r.chat
           /\ wallet' = r.wallet
           /\ debited' = debited + (wallet - r.wallet)
           /\ ledger' = ledger - (wallet - r.wallet)
           /\ owed_at_billing' = OwedAtBilling(r)
           /\ messages' = create_message(messages, arg[p].sender, arg[p].text,
                                         arg[p].cmid, now)
           /\ upcoming' = on_activated(upcoming, r.activated, r.chat)
           /\ arg' = [arg EXCEPT ![p].id = msg.id, ![p].activated = r.activated]
           /\ events' = Append(events,
                          Event("saved", p, msg.id,
                                IF r.activated THEN "activated" ELSE "plain",
                                arg[p].cmid))
           /\ last' = [Op("submit", arg[p].sender, "sent", r.activated, r.settle)
                         EXCEPT !.cmid = arg[p].cmid, !.raced = arg[p].raced]
    /\ pc' = [pc EXCEPT ![p] = after("checked", arg[p].cmid, arg'[p].activated)]
    /\ lock' = NoConn
    /\ UNCHANGED <<now, ticks, counsellors, jobs, conn>>

\* receive: "Send ACK to sender first (before broadcasting)"
GW_Ack(p) ==
    /\ pc[p] = "saved"
    /\ events' = Append(events, Event("ack", p, arg[p].id, "sent", arg[p].cmid))
    /\ pc' = [pc EXCEPT ![p] = after("saved", arg[p].cmid, arg[p].activated)]
    /\ arg' = [arg EXCEPT ![p] = Remaining(@, pc'[p])]
    /\ last' = Op("ack", arg[p].sender, "sent", arg[p].activated, NoSettle)
    /\ UNCHANGED <<now, ticks, chat, messages, wallet, counsellors, upcoming,
                   lock, debited, ledger, owed_at_billing, jobs, conn>>

\* receive: channel_layer.group_send(self.room_group_name, payload)
GW_Broadcast(p) ==
    /\ pc[p] = "acked"
    /\ events' = Append(events,
                   Event("message", p, arg[p].id, "sent", arg[p].cmid))
    /\ pc' = [pc EXCEPT ![p] = after("acked", arg[p].cmid, arg[p].activated)]
    /\ arg' = [arg EXCEPT ![p] = Remaining(@, pc'[p])]
    /\ last' = Op("broadcast", arg[p].sender, "sent", arg[p].activated, NoSettle)
    /\ UNCHANGED <<now, ticks, chat, messages, wallet, counsellors, upcoming,
                   lock, debited, ledger, owed_at_billing, jobs, conn>>

\* receive: "if chat_was_activated": the chat is read again and the status
\* change is sent to the counselor_queue group
GW_Roster(p) ==
    /\ pc[p] = "notify"
    /\ events' = IF has_access(chat, arg[p].sender)
                 THEN Append(events,
                        Event("status", p, arg[p].id, "active", arg[p].cmid))
                 ELSE events
    /\ pc' = [pc EXCEPT ![p] = after("notify", arg[p].cmid, arg[p].activated)]
    /\ arg' = [arg EXCEPT ![p] = Remaining(@, pc'[p])]
    /\ last' = Op("roster", arg[p].sender, "sent", arg[p].activated, NoSettle)
    /\ UNCHANGED <<now, ticks, chat, messages, wallet, counsellors, upcoming,
                   lock, debited, ledger, owed_at_billing, jobs, conn>>

\* variant of the transaction that keeps what was written before the error
rollback_nothing(stored, written) == written

\* "with transaction.atomic()": an exception leaves the block and the
\* database keeps the values stored before it
rollback(stored, written) == stored

\* save_message raises inside the transaction, at the latest at
\* ChatMessage.objects.create after the status logic has saved the chat; the
\* transaction is rolled back and receive reports the failure to the sender
SM_Fail(p) ==
    /\ pc[p] = "checked"
    /\ LET r == save_message(chat, arg[p].sender, wallet, counsellors, now) IN
       /\ chat' = rollback(chat, r.chat)
       /\ wallet' = rollback(wallet, r.wallet)
       /\ upcoming' = rollback(upcoming, on_activated(upcoming, r.activated, r.chat))
       /\ owed_at_billing' = rollback(owed_at_billing, OwedAtBilling(r))
    /\ debited' = debited + (wallet - wallet')
    /\ ledger' = ledger - (wallet - wallet')
    /\ lock' = NoConn
    /\ pc' = [pc EXCEPT ![p] = "idle"]
    /\ arg' = [arg EXCEPT ![p] = NoFrame]
    /\ events' = Append(events, Event("error", p, NULL, "failed", arg[p].cmid))
    /\ last' = [Op("submit", arg[p].sender, "failed", FALSE, NoSettle)
                  EXCEPT !.cmid = arg[p].cmid]
    /\ UNCHANGED <<now, ticks, messages, counsellors, jobs, conn>>

\* a websocket that has been opened and whose connect() has not run yet
NewSocket == [state |-> "new", user |-> NoUser, groups |-> {}]

\* self.user.is_authenticated
is_authenticated(u) == u # Anonymous

\* ChatConsumer.is_counselor: hasattr(user, 'counsellorprofile')
is_counselor(u) == u \in counsellors

\* ChatConsumer.connect for the credential u: the socket after it returns
connect(c, u) ==
    IF ~is_authenticated(u)
    THEN [state |-> "closed", user |-> u, groups |-> {}]
    ELSE IF ~has_access(c, u)
    THEN [state |-> "closed", user |-> u, groups |-> {}]
    ELSE [state |-> "joined", user |-> u,
          groups |-> {"chat"} \cup (IF is_counselor(u) THEN {"counselor_queue"}
                                     ELSE {})]

Connect(p, u) ==
    /\ conn[p].state = "new"
    /\ conn' = [conn EXCEPT ![p] = connect(chat, u)]
    /\ last' = Op("connect", u, conn'[p].state, FALSE, NoSettle)
    /\ UNCHANGED <<now, ticks, chat, messages, wallet, counsellors, upcoming,
                   lock, pc, arg, debited, ledger, owed_at_billing, events, jobs>>

\* variant of disconnect that leaves only the chat's group
disconnect_from_room_only(socket) ==
    [socket EXCEPT !.state = "closed", !.groups = @ \ {"chat"}]

\* ChatConsumer.disconnect: group_discard of the chat's group, and of
\* counselor_queue when the user is authenticated and is a counsellor
disconnect(socket) ==
    [socket EXCEPT !.state = "closed",
                   !.groups = (@ \ {"chat"}) \
                              (IF is_authenticated(socket.user) /\ is_counselor(socket.user)
                               THEN {"counselor_queue"} ELSE {})]

\* the websocket of an accepted connection closes; the consumer handles one
\* event at a time, so disconnect runs when receive has returned
Disconnect(p) ==
    /\ conn[p].state = "joined"
    /\ pc[p] = "idle"
    /\ conn' = [conn EXCEPT ![p] = disconnect(conn[p])]
    /\ last' = Op("disconnect", conn[p].user, "left", FALSE, NoSettle)
    /\ UNCHANGED <<now, ticks, chat, messages, wallet, counsellors, upcoming,
                   lock, pc, arg, debited, ledger, owed_at_billing, events, jobs>>

\* str.strip(): the whitespace around the text is removed
strip(raw) == [raw EXCEPT !.lead = 0, !.trail = 0]

\* len() of a text
length(raw) == raw.lead + raw.len + raw.trail

\* variant of the length test that also refuses a text of the limit's length
too_long_at_limit(raw) == length(raw) >= MAX_MESSAGE_LENGTH

\* receive: len(message_text) > 5000
too_long(raw) == length(raw) > MAX_MESSAGE_LENGTH

\* receive on a joined connection: an empty text is dropped, an oversized
\* one is answered with an error, any other is handed to save_message
GW_Frame(p, raw, cmid) ==
    /\ conn[p].state = "joined"
    /\ pc[p] = "idle"
    /\ LET message_text == strip(raw) IN
       IF length(message_text) = 0
       THEN /\ last' = [Op("frame", conn[p].user, "ignored", FALSE, NoSettle)
                          EXCEPT !.cmid = cmid, !.text = raw]
            /\ last' # last
            /\ UNCHANGED <<now, ticks, chat, messages, wallet, counsellors,
                           upcoming, lock, pc, arg, debited, ledger,
                           owed_at_billing, events, jobs, conn>>
       ELSE IF too_long(message_text)
       THEN /\ Handled + Cardinality({q \in Conns : pc[q] # "idle"}) < MaxLog
            /\ events' = Append(events, Event("error", p, NULL, "too_long", cmid))
            /\ last' = [Op("frame", conn[p].user, "too_long", FALSE, NoSettle)
                          EXCEPT !.cmid = cmid, !.text = raw]
            /\ UNCHANGED <<now, ticks, chat, messages, wallet, counsellors,
                           upcoming, lock, pc, arg, debited, ledger,
                           owed_at_billing, jobs, conn>>
       ELSE SM_Receive(p, conn[p].user, message_text, cmid)

\* ------------------------------------------------------------ views.py
\* the UpcomingSession SessionEndView finds for the chat's pair
session_of(c, session) ==
    IF c.counsellor # NoUser /\ c.counsellor = "c1" THEN session ELSE "none"

\* SessionEndView.post, ending the chat itself (no UpcomingSession found)
end_chat_directly(c, balance, t) ==
    IF c.counsellor = NoUser
    THEN [chat |-> c, wallet |-> balance, settle |-> NoSettle,
          result |-> "no_counsellor"]
    ELSE IF c.status \in {"active", "inactive"}
    THEN LET m == [c EXCEPT !.status = "completed",
                            !.ended_at = IF @ = NULL THEN t ELSE @,
                            !.started_at = IF @ = NULL THEN t ELSE @]
             r1 == ChatSave(m, balance, t)
             r2 == IF ~r1.chat.is_billed
                   THEN calculate_and_deduct_chat_billing(r1.chat, r1.wallet, t)
                   ELSE r1
         IN  [chat |-> r2.chat, wallet |-> r2.wallet, settle |-> r2.settle,
              result |-> "ended"]
    ELSE [chat |-> c, wallet |-> balance, settle |-> NoSettle,
          result |-> "cannot_end"]

\* SessionEndView.post, ending the UpcomingSession and billing its chat
end_with_session(c, session, balance, t) ==
    IF session = "completed"
    THEN [chat |-> c, wallet |-> balance, settle |-> NoSettle,
          result |-> "already_ended"]
    ELSE IF c.status \in {"active", "inactive"} /\ ~c.is_billed
            /\ c.started_at # NULL
    THEN LET m == [c EXCEPT !.status = "completed",
                            !.ended_at = IF @ = NULL THEN t ELSE @]
             r1 == ChatSave(m, balance, t)
             r2 == IF ~r1.chat.is_billed /\ r1.chat.started_at # NULL
                      /\ r1.chat.ended_at # NULL
                   THEN calculate_and_deduct_chat_billing(r1.chat, r1.wallet, t)
                   ELSE r1
         IN  [chat |-> r2.chat, wallet |-> r2.wallet, settle |-> r2.settle,
              result |-> "ended"]
    ELSE [chat |-> c, wallet |-> balance, settle |-> NoSettle,
          result |-> "ended"]

\* SessionEndView.post called with the chat's id by account actor
end_session(c, actor, session, balance, t) ==
    IF ~(c.user = actor \/ (c.counsellor # NoUser /\ c.counsellor = actor))
    THEN [chat |-> c, wallet |-> balance, settle |-> NoSettle,
          result |-> "denied"]
    ELSE IF session_of(c, session) = "none"
         THEN end_chat_directly(c, balance, t)
         ELSE end_with_session(c, session, balance, t)

EndSession(actor) ==
    /\ lock = NoConn
    /\ LET r == end_session(chat, actor, upcoming, wallet, now) IN
       /\ chat' = r.chat
       /\ wallet' = r.wallet
       /\ debited' = debited + (wallet - r.wallet)
       /\ ledger' = ledger - (wallet - r.wallet)
       /\ owed_at_billing' = OwedAtBilling(r)
       /\ upcoming' = IF r.result = "ended" /\ session_of(chat, upcoming) # "none"
                      THEN "completed" ELSE upcoming
       /\ last' = Op("end", actor, r.result, FALSE, r.settle)
       /\ last' # last
    /\ UNCHANGED <<now, ticks, messages, counsellors, lock, pc, arg,
                   events, jobs, conn>>

\* ChatAcceptView.patch by a counsellor on a queued chat
accept_chat(c, u, t) ==
    [c EXCEPT !.counsellor = u, !.status = "active", !.started_at = t]

Accept(u) ==
    /\ lock = NoConn
    /\ u \in counsellors
    /\ chat.status = "queued"
    /\ chat' = accept_chat(chat, u, now)
    /\ last' = Op("accept", u, "accepted", FALSE, NoSettle)
    /\ UNCHANGED <<events, jobs, conn>>
    /\ UNCHANGED <<now, ticks, messages, wallet, counsellors, upcoming, lock,
                   pc, arg, debited, ledger,
                   owed_at_billing>>

\* ChatAcceptView.patch, first statement: Chat.objects.get(id=chat_id,
\* status="queued") without lock; the view holds the row in memory and
\* assigns chat.counsellor = request.user
AcceptRead(u) ==
    /\ ~jobs.accept.busy
    /\ u \in counsellors
    /\ chat.status = "queued"
    /\ jobs' = [jobs EXCEPT !.accept =
                  [IdleJob EXCEPT !.busy = TRUE,
                                  !.row = [chat EXCEPT !.counsellor = u]]]
    /\ last' = Op("accept_read", u, "found", FALSE, NoSettle)
    /\ UNCHANGED <<now, ticks, chat, messages, wallet, counsellors, upcoming,
                   lock, pc, arg, debited, ledger, owed_at_billing, events, conn>>

\* ChatAcceptView.patch, chat.save(update_fields=['counsellor', 'status',
\* 'started_at', 'updated_at']) of the row held in memory
AcceptWrite ==
    /\ jobs.accept.busy
    /\ lock = NoConn
    /\ chat' = SaveFields(chat,
                          accept_chat(jobs.accept.row, jobs.accept.row.counsellor, now),
                          {"counsellor", "status", "started_at"})
    /\ jobs' = [jobs EXCEPT !.accept = IdleJob]
    /\ last' = Op("accept", jobs.accept.row.counsellor, "accepted", FALSE, NoSettle)
    /\ UNCHANGED <<now, ticks, messages, wallet, counsellors, upcoming, lock,
                   pc, arg, debited, ledger, owed_at_billing, events, conn>>

\* ChatMessageListView.get_queryset by the chat's user (the user opens the
\* chat): last_user_activity is refreshed
open_chat(c, t) ==
    LET m1 == [c EXCEPT !.last_user_activity = t]
        closing == /\ m1.status = "active"
                   /\ m1.last_user_activity # NULL
                   /\ m1.last_user_activity < t - ONE_HOUR
        m2 == IF closing
              THEN [m1 EXCEPT !.status = "completed",
                              !.ended_at = IF @ = NULL THEN t ELSE @,
                              !.started_at = IF @ = NULL THEN c.created_at ELSE @]
              ELSE m1
    IN  IF closing
        THEN SaveFields(c, m2, {"status", "ended_at", "started_at",
                                "last_user_activity"})
        ELSE SaveFields(c, m2, {"last_user_activity"})

OpenChat ==
    /\ lock = NoConn
    /\ chat.last_user_activity # now
    /\ LET r == ChatSave(open_chat(chat, now), wallet, now) IN
       /\ chat' = r.chat
       /\ wallet' = r.wallet
       /\ debited' = debited + (wallet - r.wallet)
       /\ ledger' = ledger - (wallet - r.wallet)
       /\ owed_at_billing' = OwedAtBilling(r)
       /\ last' = Op("open", ChatUser, "opened", FALSE, r.settle)
    /\ UNCHANGED <<now, ticks, messages, counsellors, upcoming, lock, pc, arg,
                   events, jobs, conn>>

\* ------------------------------------------------- management commands
\* check_inactive_chats: the filter of Command.handle
sweep_selects(c, t) ==
    /\ c.status = "active"
    /\ c.last_user_activity # NULL
    /\ c.last_user_activity < t - FIVE_MINUTES

Sweep ==
    /\ lock = NoConn
    /\ sweep_selects(chat, now)
    /\ chat' = mark_inactive(chat, now)
    /\ last' = Op("sweep", NoUser, "inactivated", FALSE, NoSettle)
    /\ UNCHANGED <<events, jobs, conn>>
    /\ UNCHANGED <<now, ticks, messages, wallet, counsellors, upcoming, lock,
                   pc, arg, debited, ledger,
                   owed_at_billing>>

\* variant of the loop body that deducts without looking at the balance
accrue_overdrawing(c, balance, t) ==
    LET duration_minutes == calculate_chat_duration_minutes(c, t)
        current_billing == calculate_chat_billing(c, t)
        amount_to_deduct == current_billing - c.billed_amount
    IN  IF duration_minutes < MIN_DURATION \/ amount_to_deduct <= 0
        THEN [chat |-> c, wallet |-> balance, result |-> "nothing"]
        ELSE [chat |-> [c EXCEPT !.billed_amount = current_billing,
                                 !.duration_minutes = duration_minutes],
              wallet |-> balance - amount_to_deduct, result |-> "deducted"]

\* process_chat_billing: the body of the loop of Command.handle for one chat
accrue_active(c, balance, t) ==
    LET duration_minutes == calculate_chat_duration_minutes(c, t)
        current_billing == calculate_chat_billing(c, t)
        already_billed == c.billed_amount
        amount_to_deduct == current_billing - already_billed
    IN  IF duration_minutes < MIN_DURATION \/ amount_to_deduct <= 0
        THEN [chat |-> c, wallet |-> balance, result |-> "nothing"]
        ELSE IF balance >= amount_to_deduct
        THEN [chat |-> [c EXCEPT !.billed_amount = current_billing,
                                 !.duration_minutes = duration_minutes],
              wallet |-> balance - amount_to_deduct, result |-> "deducted"]
        ELSE [chat |-> c, wallet |-> balance, result |-> "insufficient"]

Accrue ==
    /\ lock = NoConn
    /\ chat.status = "active"
    /\ chat.started_at # NULL
    /\ LET r == accrue_active(chat, wallet, now) IN
       /\ r.result # "nothing"
       /\ chat' = r.chat
       /\ wallet' = r.wallet
       /\ debited' = debited + (wallet - r.wallet)
       /\ ledger' = ledger - (wallet - r.wallet)
       /\ UNCHANGED owed_at_billing
       /\ last' = Op("accrue", NoUser, r.result, FALSE, NoSettle)
    /\ UNCHANGED <<now, ticks, messages, counsellors, upcoming, lock, pc, arg,
                   events, jobs, conn>>

\* calculate_and_deduct_chat_billing called again on an ended chat (the
\* retry after a failed deduction, or a repeated call)
Settle ==
    /\ lock = NoConn
    /\ chat.status = "completed"
    /\ LET r == calculate_and_deduct_chat_billing(chat, wallet, now) IN
       /\ chat' = r.chat
       /\ wallet' = r.wallet
       /\ debited' = debited + (wallet - r.wallet)
       /\ ledger' = ledger - (wallet - r.wallet)
       /\ owed_at_billing' = OwedAtBilling(r)
       /\ last' = Op("settle", NoUser, IF r.settle.ok THEN "ok" ELSE "failed",
                     FALSE, r.settle)
    /\ UNCHANGED <<now, ticks, messages, counsellors, upcoming, lock, pc, arg,
                   events, jobs, conn>>

\* save_message as one step: with the row lock held from the duplicate test
\* to the commit, no other writer of the chat row runs in between
Submit(sender, text, cmid) ==
    /\ lock = NoConn
    /\ \A p \in Conns : pc[p] = "idle"
    /\ has_access(chat, sender)
    /\ IF is_duplicate(messages, sender, text, cmid, now)
       THEN /\ last' = [Op("submit", sender, "duplicate", FALSE, NoSettle)
                          EXCEPT !.cmid = cmid, !.text = text]
            /\ last # last'
            /\ UNCHANGED <<chat, wallet, debited, ledger, owed_at_billing, messages,
                           upcoming>>
       ELSE /\ Len(messages) < MaxMsgs
            /\ LET r == save_message(chat, sender, wallet, counsellors, now)
               IN  /\ chat' = r.chat
                   /\ wallet' = r.wallet
                   /\ debited' = debited + (wallet - r.wallet)
                   /\ ledger' = ledger - (wallet - r.wallet)
                   /\ owed_at_billing' = OwedAtBilling(r)
                   /\ messages' = create_message(messages, sender, text, cmid, now)
                   /\ upcoming' = on_activated(upcoming, r.activated, r.chat)
                   /\ last' = [Op("submit", sender, "sent", r.activated, r.settle)
                                 EXCEPT !.cmid = cmid, !.text = text]
    /\ UNCHANGED <<now, ticks, counsellors, lock, pc, arg,
                   events, jobs, conn>>

\* what can go wrong in the block that auto-starts the UpcomingSession: an
\* exception raised by Python code, or a statement the database rejects
SessionErrors == {"python", "database"}

\* the except clause around the auto-start catches every Exception; a
\* statement rejected by the database inside transaction.atomic() leaves the
\* transaction unusable, so the statements that follow in save_message raise
transaction_broken(kind) == kind = "database"

\* save_message for a frame that activates the chat while the auto-start of
\* the UpcomingSession fails
SubmitSessionError(sender, text, cmid, kind) ==
    /\ lock = NoConn
    /\ \A p \in Conns : pc[p] = "idle"
    /\ has_access(chat, sender)
    /\ ~is_duplicate(messages, sender, text, cmid, now)
    /\ Len(messages) < MaxMsgs
    /\ LET r == save_message(chat, sender, wallet, counsellors, now) IN
       /\ r.activated
       /\ r.chat.counsellor # NoUser
       /\ IF transaction_broken(kind)
          THEN /\ chat' = rollback(chat, r.chat)
               /\ wallet' = rollback(wallet, r.wallet)
               /\ messages' = rollback(messages,
                                       create_message(messages, sender, text, cmid, now))
               /\ owed_at_billing' = rollback(owed_at_billing, OwedAtBilling(r))
               /\ last' = [Op("submit", sender, "failed", FALSE, NoSettle)
                             EXCEPT !.cmid = cmid, !.text = text,
                                    !.session_error = kind]
          ELSE /\ chat' = r.chat
               /\ wallet' = r.wallet
               /\ messages' = create_message(messages, sender, text, cmid, now)
               /\ owed_at_billing' = OwedAtBilling(r)
               /\ last' = [Op("submit", sender, "sent", r.activated, r.settle)
                             EXCEPT !.cmid = cmid, !.text = text,
                                    !.session_error = kind]
    /\ debited' = debited + (wallet - wallet')
    /\ ledger' = ledger - (wallet - wallet')
    /\ UNCHANGED <<now, ticks, counsellors, upcoming, lock, pc, arg,
                   events, jobs, conn>>

\* ------------------------------------------- the writers that take no lock
\* check_inactive_chats: the queryset is evaluated and the selected row is
\* held in memory; no transaction is open and no row lock is taken
SweepRead ==
    /\ ~jobs.sweep.busy
    /\ sweep_selects(chat, now)
    /\ jobs' = [jobs EXCEPT !.sweep = [IdleJob EXCEPT !.busy = TRUE, !.row = chat]]
    /\ UNCHANGED conn
    /\ last' = Op("sweep_read", NoUser, "selected", FALSE, NoSettle)
    /\ UNCHANGED <<now, ticks, chat, messages, wallet, counsellors, upcoming,
                   lock, pc, arg, debited, ledger, owed_at_billing, events>>

\* check_inactive_chats: chat.mark_inactive() on the row held in memory
SweepWrite ==
    /\ jobs.sweep.busy
    /\ lock = NoConn
    /\ chat' = SaveFields(chat, mark_inactive(jobs.sweep.row, now),
                          {"status", "ended_at", "started_at"})
    /\ jobs' = [jobs EXCEPT !.sweep = IdleJob]
    /\ UNCHANGED conn
    /\ last' = Op("sweep", NoUser, "inactivated", FALSE, NoSettle)
    /\ UNCHANGED <<now, ticks, messages, wallet, counsellors, upcoming, lock,
                   pc, arg, debited, ledger, owed_at_billing, events>>

\* process_chat_billing: the chat row and UserProfile.objects.get(user=...)
\* are read without a lock and the amount to deduct is computed
AccrueRead ==
    /\ ~jobs.accrue.busy
    /\ chat.status = "active"
    /\ chat.started_at # NULL
    /\ LET r == accrue_active(chat, wallet, now) IN
       /\ r.result = "deducted"
       /\ jobs' = [jobs EXCEPT !.accrue =
                     [IdleJob EXCEPT !.busy = TRUE, !.row = r.chat,
                                     !.balance = r.wallet,
                                     !.amount = wallet - r.wallet]]
    /\ UNCHANGED conn
    /\ last' = Op("accrue_read", NoUser, "computed", FALSE, NoSettle)
    /\ UNCHANGED <<now, ticks, chat, messages, wallet, counsellors, upcoming,
                   lock, pc, arg, debited, ledger, owed_at_billing, events>>

\* process_chat_billing: profile.save(update_fields=['wallet_minutes']) and
\* chat.save(update_fields=['billed_amount', 'duration_minutes']) write the
\* values computed from what was read
AccrueWrite ==
    /\ jobs.accrue.busy
    /\ lock = NoConn
    /\ wallet' = jobs.accrue.balance
    /\ chat' = SaveFields(chat, jobs.accrue.row,
                          {"billed_amount", "duration_minutes"})
    /\ debited' = debited + jobs.accrue.amount
    /\ ledger' = ledger - jobs.accrue.amount
    /\ jobs' = [jobs EXCEPT !.accrue = IdleJob]
    /\ UNCHANGED conn
    /\ last' = Op("accrue", NoUser, "deducted", FALSE, NoSettle)
    /\ UNCHANGED <<now, ticks, messages, counsellors, upcoming, lock, pc, arg,
                   owed_at_billing, events>>

\* WalletRechargeView.post: UserProfile.objects.get_or_create(user=...)
RechargeRead(amount) ==
    /\ ~jobs.recharge.busy
    /\ jobs.recharge.n < MaxRecharges
    /\ jobs' = [jobs EXCEPT !.recharge =
                  [@ EXCEPT !.busy = TRUE, !.balance = wallet, !.amount = amount]]
    /\ UNCHANGED conn
    /\ last' = Op("recharge_read", ChatUser, "read", FALSE, NoSettle)
    /\ UNCHANGED <<now, ticks, chat, messages, wallet, counsellors, upcoming,
                   lock, pc, arg, debited, ledger, owed_at_billing, events>>

\* WalletRechargeView.post: profile.wallet_minutes += amount; profile.save
RechargeWrite ==
    /\ jobs.recharge.busy
    /\ wallet' = jobs.recharge.balance + jobs.recharge.amount
    /\ ledger' = ledger + jobs.recharge.amount
    /\ jobs' = [jobs EXCEPT !.recharge =
                  [IdleJob EXCEPT !.n = jobs.recharge.n + 1]]
    /\ UNCHANGED conn
    /\ last' = Op("recharge", ChatUser, "ok", FALSE, NoSettle)
    /\ UNCHANGED <<now, ticks, chat, messages, counsellors, upcoming, lock,
                   pc, arg, debited, owed_at_billing, events>>

\* SERVICE_RATE_MAP and SERVICE_MIN_BALANCE_MAP
service_rate(service) ==
    IF service = "call" THEN CALL_RATE_PER_MINUTE ELSE CHAT_RATE_PER_MINUTE
service_min_balance(service) ==
    IF service = "call" THEN MIN_CALL_BALANCE ELSE MIN_CHAT_BALANCE

\* variant of WalletUsageView.post without the two balance tests
wallet_usage_unchecked(balance, service, minutes) ==
    [ok |-> TRUE, wallet |-> balance - minutes * service_rate(service),
     charge |-> minutes * service_rate(service)]

\* WalletUsageView.post on a profile read with the balance given
wallet_usage(balance, service, minutes) ==
    LET charge == minutes * service_rate(service)
        min_required == service_min_balance(service)
    IN  IF balance < min_required \/ balance < charge
        THEN [ok |-> FALSE, wallet |-> balance, charge |-> 0]
        ELSE [ok |-> TRUE, wallet |-> balance - charge, charge |-> charge]

\* WalletUsageView.post: UserProfile.objects.get_or_create(user=...) and the
\* tests on the balance it read
UsageRead(service, minutes) ==
    /\ ~jobs.usage.busy
    /\ jobs.usage.n < MaxUsages
    /\ LET r == wallet_usage(wallet, service, minutes) IN
       /\ r.ok
       /\ jobs' = [jobs EXCEPT !.usage =
                     [@ EXCEPT !.busy = TRUE, !.balance = r.wallet,
                               !.amount = r.charge]]
    /\ last' = Op("usage_read", ChatUser, "read", FALSE, NoSettle)
    /\ UNCHANGED <<now, ticks, chat, messages, wallet, counsellors, upcoming,
                   lock, pc, arg, debited, ledger, owed_at_billing, events, conn>>

\* WalletUsageView.post: profile.wallet_minutes -= charge; profile.save
UsageWrite ==
    /\ jobs.usage.busy
    /\ wallet' = jobs.usage.balance
    /\ ledger' = ledger - jobs.usage.amount
    /\ jobs' = [jobs EXCEPT !.usage = [IdleJob EXCEPT !.n = jobs.usage.n + 1]]
    /\ last' = Op("usage", ChatUser, "ok", FALSE, NoSettle)
    /\ UNCHANGED <<now, ticks, chat, messages, counsellors, upcoming, lock,
                   pc, arg, debited, owed_at_billing, events, conn>>

\* ------------------------------------------------------------ specification
\* the operations on the chat, save_message taken as one step
Operation ==
    \/ \E u \in Accounts, x \in Texts, k \in SerialIds : Submit(u, x, k)
    \/ \E u \in Accounts : EndSession(u)
    \/ \E u \in Staff : Accept(u)
    \/ OpenChat
    \/ Sweep
    \/ Accrue
    \/ Settle

\* the session life cycle and billing around the five-minute threshold
Next ==
    \/ \E d \in Jumps : Advance(d)
    \/ Operation

Spec == Init /\ [][Next]_vars

\* the same operations with the clock stepping around the one-hour threshold
NextIdle ==
    \/ \E d \in IdleJumps : Advance(d)
    \/ Operation

SpecIdle == Init /\ [][NextIdle]_vars

\* the duplicate tests of save_message: the requester and the counsellor "c1"
\* send one of two texts, without a key or with one of two keys, and the clock
\* steps to the edge of the two-second window or just past it
InitDedup ==
    /\ Init
    /\ wallet = 200
    /\ counsellors = {"c1"}

NextDedup ==
    \/ \E d \in DedupJumps : Advance(d)
    \/ \E u \in {ChatUser, "c1"}, x \in DedupTexts, k \in DedupIds : Submit(u, x, k)

SpecDedup == InitDedup /\ [][NextDedup]_vars

\* a chat whose pair has a scheduled UpcomingSession, with activations whose
\* auto-start fails
InitSession ==
    /\ Init
    /\ wallet = 200
    /\ counsellors = {"c1"}
    /\ upcoming = "scheduled"

NextSession ==
    \/ \E d \in Jumps : Advance(d)
    \/ \E u \in Accounts, x \in Texts, k \in SerialIds : Submit(u, x, k)
    \/ \E u \in Accounts, x \in Texts, k \in SerialIds, e \in SessionErrors :
          SubmitSessionError(u, x, k, e)
    \/ \E u \in Accounts : EndSession(u)
    \/ Sweep

SpecSession == InitSession /\ [][NextSession]_vars

\* a queued chat that two counsellors can accept while the requester writes;
\* ChatAcceptView reads and writes the row in two statements
InitAccept ==
    /\ now = 0
    /\ ticks = 0
    /\ chat = NewChat
    /\ messages = <<>>
    /\ wallet = 200
    /\ counsellors = Staff
    /\ upcoming = "none"
    /\ lock = NoConn
    /\ pc = [p \in Conns |-> "idle"]
    /\ arg = [p \in Conns |-> NoFrame]
    /\ debited = 0
    /\ owed_at_billing = 0
    /\ last = Op("create", ChatUser, "created", FALSE, NoSettle)
    /\ ledger = wallet
    /\ events = <<>>
    /\ jobs = NoJobs
    /\ conn = [p \in Conns |-> Accepted]

NextAccept ==
    \/ \E d \in Jumps : Advance(d)
    \/ \E u \in Accounts, x \in Texts, k \in SerialIds : Submit(u, x, k)
    \/ \E u \in Staff : AcceptRead(u)
    \/ AcceptWrite
    \/ Sweep

SpecAccept == InitAccept /\ [][NextAccept]_vars

\* a chat row whose status is 'cancelled' and that no counsellor ever accepted:
\* save_message and the message list view accept the status as an input
\* (status in ['queued', 'completed', 'inactive', 'cancelled']); the code that
\* stores it is outside these sources
CancelledChat == [NewChat EXCEPT !.status = "cancelled"]

InitCancelled ==
    /\ now = 0
    /\ ticks = 0
    /\ chat = CancelledChat
    /\ messages = <<>>
    /\ wallet \in InitialWallets
    /\ counsellors = {"c1"}
    /\ upcoming \in {"none", "scheduled"}
    /\ lock = NoConn
    /\ pc = [p \in Conns |-> "idle"]
    /\ arg = [p \in Conns |-> NoFrame]
    /\ debited = 0
    /\ owed_at_billing = 0
    /\ last = Op("create", ChatUser, "created", FALSE, NoSettle)
    /\ ledger = wallet
    /\ events = <<>>
    /\ jobs = NoJobs
    /\ conn = [p \in Conns |-> Accepted]

NextCancelled ==
    \/ \E d \in Jumps : Advance(d)
    \/ \E u \in Accounts, x \in Texts, k \in SerialIds : Submit(u, x, k)
    \/ \E u \in Accounts : EndSession(u)
    \/ Sweep
    \/ OpenChat

SpecCancelled == InitCancelled /\ [][NextCancelled]_vars

\* the same system with the cron jobs and the clock kept going: the two
\* management commands are run periodically, so each of them runs again
\* whenever it has something to do
SpecCron ==
    /\ Init
    /\ [][NextIdle]_vars
    /\ WF_vars(Sweep)
    /\ WF_vars(Accrue)
    /\ WF_vars(\E d \in IdleJumps : Advance(d))

\* the commands and the wallet view interleaved, read by read and write by
\* write, with the operations that lock or run in one statement
NextRace ==
    \/ \E d \in Jumps : Advance(d)
    \/ \E u \in Accounts, x \in Texts, k \in SerialIds : Submit(u, x, k)
    \/ \E u \in Accounts : EndSession(u)
    \/ SweepRead
    \/ SweepWrite
    \/ AccrueRead
    \/ AccrueWrite
    \/ \E a \in RechargeAmounts : RechargeRead(a)
    \/ RechargeWrite

SpecRace == Init /\ [][NextRace]_vars

\* every writer of the requester's wallet: the settlement under its row
\* lock, and process_chat_billing, WalletRechargeView and WalletUsageView as
\* a read and a later write
InitWallet ==
    /\ Init
    /\ wallet = 200
    /\ counsellors = {"c1"}
    /\ upcoming = "none"

NextWallet ==
    \/ Advance(SECONDS_PER_MINUTE)
    \/ \E x \in Texts, k \in SerialIds : Submit(ChatUser, x, k)
    \/ EndSession(ChatUser)
    \/ AccrueRead
    \/ AccrueWrite
    \/ \E a \in RechargeAmounts : RechargeRead(a)
    \/ RechargeWrite
    \/ \E u \in Usages : UsageRead(u.service, u.minutes)
    \/ UsageWrite

SpecWallet == InitWallet /\ [][NextWallet]_vars

\* the gateway starts with a funded wallet and no scheduled appointment
InitConc ==
    /\ Init
    /\ wallet = 200
    /\ upcoming = "none"

\* concurrent frames on two connections, save_message in its steps
NextConc ==
    \/ \E d \in ConcJumps : Advance(d)
    \/ \E p \in Conns, u \in Accounts, x \in Texts, k \in ClientIds :
          SM_Receive(p, u, x, k)
    \/ \E p \in Conns : SM_Lock(p)
    \/ \E p \in Conns : SM_Commit(p)
    \/ \E p \in Conns : GW_Ack(p)
    \/ \E p \in Conns : GW_Broadcast(p)
    \/ \E p \in Conns : GW_Roster(p)
    \/ \E u \in Staff : Accept(u)

SpecConc == InitConc /\ [][NextConc]_vars

\* get_chat_estimated_cost is called for the chat
Estimate ==
    /\ last.op # "estimate"
    /\ last' = [Op("estimate", NoUser, "computed", FALSE, NoSettle)
                  EXCEPT !.estimate = get_chat_estimated_cost(chat, now)]
    /\ UNCHANGED <<now, ticks, chat, messages, wallet, counsellors, upcoming,
                   lock, pc, arg, debited, ledger, owed_at_billing, events,
                   jobs, conn>>

\* a chat with any started_at and ended_at that are not in the future
InitBilling ==
    /\ now \in Times
    /\ ticks = 0
    /\ \E s, e \in Times \cup {NULL}, st \in Statuses :
          /\ s <= now /\ e <= now
          /\ chat = [NewChat EXCEPT !.started_at = s, !.ended_at = e,
                                    !.status = st]
    /\ messages = <<>>
    /\ wallet \in InitialWallets
    /\ counsellors = {}
    /\ upcoming = "none"
    /\ lock = NoConn
    /\ pc = [p \in Conns |-> "idle"]
    /\ arg = [p \in Conns |-> NoFrame]
    /\ debited = 0
    /\ owed_at_billing = 0
    /\ last = Op("create", ChatUser, "created", FALSE, NoSettle)
    /\ ledger = wallet
    /\ events = <<>>
    /\ jobs = NoJobs
    /\ conn = [p \in Conns |-> Accepted]

\* the billing functions applied to any chat row
SpecBilling == InitBilling /\ [][Estimate]_vars

\* websockets that are opened, authenticated and joined before they send;
\* the requester has a funded wallet and a scheduled appointment
InitGateway ==
    /\ Start
    /\ wallet = 200
    /\ upcoming = "scheduled"
    /\ conn = [p \in Conns |-> NewSocket]

\* the gateway from connect to the frames it sends, with failing saves
NextGateway ==
    \/ \E p \in Conns, u \in Credentials : Connect(p, u)
    \/ \E p \in Conns, raw \in RawTexts, k \in ClientIds : GW_Frame(p, raw, k)
    \/ \E p \in Conns : SM_Lock(p)
    \/ \E p \in Conns : SM_Commit(p)
    \/ \E p \in Conns : SM_Fail(p)
    \/ \E p \in Conns : GW_Ack(p)
    \/ \E p \in Conns : GW_Broadcast(p)
    \/ \E p \in Conns : GW_Roster(p)
    \/ \E u \in Staff : Accept(u)

SpecGateway == InitGateway /\ [][NextGateway]_vars

\* connections that open, exchange short messages and close
NextSocket ==
    \/ \E p \in Conns, u \in Credentials : Connect(p, u)
    \/ \E p \in Conns : Disconnect(p)
    \/ \E p \in Conns, k \in ClientIds : GW_Frame(p, Hi, k)
    \/ \E p \in Conns : SM_Lock(p)
    \/ \E p \in Conns : SM_Commit(p)
    \/ \E p \in Conns : GW_Ack(p)
    \/ \E p \in Conns : GW_Broadcast(p)
    \/ \E p \in Conns : GW_Roster(p)

SpecSocket == InitGateway /\ [][NextSocket]_vars


\* ------------------------------------------------------------ properties
\* a step of save_message that created a row, sent by account kind
SentBy(requester) ==
    /\ last'.op = "submit"
    /\ last'.result = "sent"
    /\ (last'.actor = chat.user) = requester

\* a step that ran the settlement at session close or as a later retry
SettlementStep ==
    /\ last'.op \in {"end", "settle"}
    /\ last'.settle.ran

\* rows of the message table with the key (sender, client_message_id)
RowsWithKey(sender, cmid) ==
    {i \in 1..Len(messages) :
        /\ messages[i].sender = sender
        /\ messages[i].client_message_id = cmid}

\* C1: whatever the interleaving of save_message calls on the chat, the message
\* table never holds two rows with the same sender and the same non-null
\* client_message_id; a call that returns "duplicate" for such a key leaves
\* exactly one row with it.
C1_OneMessagePerKey ==
    /\ \A u \in Accounts, k \in ClientIds \ {"none"} :
          Cardinality(RowsWithKey(u, k)) <= 1
    /\ (last.op = "submit" /\ last.result = "duplicate" /\ last.cmid # "none")
          => Cardinality(RowsWithKey(last.actor, last.cmid)) = 1

\* C1 witness: a frame received while another connection was already
\* processing a frame with the same key came back as a duplicate.
C1_Witness ==
    /\ last.op = "submit"
    /\ last.result = "duplicate"
    /\ last.cmid # "none"
    /\ last.raced
    /\ Cardinality(RowsWithKey(last.actor, last.cmid)) = 1

\* C2: a settlement that marks the chat billed takes from the wallet exactly
\* the amount owed minus the billed_amount already charged by the accrual, so
\* that the total taken for the chat equals the amount owed.
C2_SettleChargesDelta ==
    [][(SettlementStep /\ ~chat.is_billed /\ chat'.is_billed
          /\ last'.settle.amount >= chat.billed_amount)
        => /\ wallet - wallet' = last'.settle.amount - chat.billed_amount
           /\ debited' = last'.settle.amount]_vars

\* C3: no step lowers billed_amount.
C3_BilledAmountMonotonic ==
    [][chat'.billed_amount >= chat.billed_amount]_vars

\* C4: ending a chat that is already completed reports the already-ended
\* outcome, not an error, and changes neither the chat row nor the wallet.
C4_EndSessionIdempotent ==
    [][(last'.op = "end" /\ chat.status = "completed")
        => /\ last'.result = "already_ended"
           /\ chat' = chat
           /\ wallet' = wallet]_vars

\* C5: when the wallet holds less than the amount the settlement tries to
\* charge, the settlement reports failure, the wallet is unchanged, is_billed
\* stays false and the chat stays completed.
C5_InsufficientBalance ==
    [][(SettlementStep /\ ~chat.is_billed /\ last'.settle.amount > wallet)
        => /\ ~last'.settle.ok
           /\ wallet' = wallet
           /\ ~chat'.is_billed
           /\ chat'.status = "completed"]_vars

\* C5 witness: an end of session whose settlement failed for lack of balance.
C5_Witness ==
    /\ last.op = "end"
    /\ last.result = "ended"
    /\ last.settle.ran
    /\ ~last.settle.ok
    /\ last.settle.amount > wallet
    /\ ~chat.is_billed
    /\ chat.status = "completed"

\* C6: a settlement run on a chat whose is_billed is already true reports
\* success and changes neither the wallet nor any field of the chat row.
C6_SettleIdempotent ==
    [][(last'.op = "settle" /\ chat.is_billed)
        => /\ last'.settle.ok
           /\ wallet' = wallet
           /\ chat' = chat]_vars

\* C6 witness: the settlement ran again on a completed chat that an earlier
\* settlement had billed for a non-zero amount, and charged nothing.
C6_Witness ==
    /\ last.op = "settle"
    /\ last.from = "completed"
    /\ last.result = "ok"
    /\ last.settle.amount = 0
    /\ chat.is_billed
    /\ chat.billing_processed_at # NULL
    /\ chat.billed_amount > 0
    /\ debited >= chat.billed_amount

\* C7: a chat with is_billed = true has billed_amount equal to the amount owed
\* when billing_processed_at was set, and that amount is the total taken from
\* the wallet for the chat.
C7_BilledIsOwedAndDebited ==
    chat.is_billed =>
        /\ chat.billed_amount = owed_at_billing
        /\ debited = chat.billed_amount

\* C8: a requester message to an active chat whose last_user_activity is more
\* than one hour old leaves the chat completed with ended_at set and the
\* elapsed window settled, and the message is still stored.
C8_AutoCloseAfterHour ==
    [][(SentBy(TRUE) /\ chat.status = "active"
          /\ chat.last_user_activity # NULL
          /\ chat.last_user_activity < now - ONE_HOUR)
        => /\ chat'.status = "completed"
           /\ chat'.ended_at # NULL
           /\ last'.settle.ran
           /\ Len(messages') = Len(messages) + 1]_vars

\* C9: a counsellor message to an active chat whose last_user_activity is
\* more than five minutes old makes the chat inactive and, if ended_at was
\* unset, sets ended_at to last_user_activity + 5 minutes; with a silence of
\* five minutes or less, or no last_user_activity, the status is unchanged.
C9_CounsellorMessageInactivates ==
    [][(SentBy(FALSE) /\ chat.status = "active")
        => IF chat.last_user_activity # NULL
              /\ now - chat.last_user_activity > FIVE_MINUTES
           THEN /\ chat'.status = "inactive"
                /\ (chat.ended_at = NULL
                      => chat'.ended_at = chat.last_user_activity + FIVE_MINUTES)
           ELSE chat'.status = chat.status]_vars

\* C9 witness: a counsellor message found the chat active and left it inactive
\* with ended_at five minutes after the requester's last activity.
C9_Witness ==
    /\ last.op = "submit"
    /\ last.result = "sent"
    /\ last.actor # chat.user
    /\ last.from = "active"
    /\ chat.status = "inactive"
    /\ chat.ended_at = chat.last_user_activity + FIVE_MINUTES
    /\ chat.ended_at < now

\* C10 as stated: a requester message to a queued chat without counsellor
\* leaves it active with a counsellor assigned, started_at set, ended_at null,
\* and reports activated.
C10_QueuedActivatesWithAssignee ==
    [][(SentBy(TRUE) /\ chat.status = "queued" /\ chat.counsellor = NoUser)
        => /\ chat'.status = "active"
           /\ chat'.counsellor # NoUser
           /\ chat'.started_at # NULL
           /\ chat'.ended_at = NULL
           /\ last'.activated]_vars

\* C10 amended: the chat becomes active with started_at set, ended_at null and
\* activated reported; the counsellor assigned is one holding a
\* counsellorprofile when such an account exists, and stays unset otherwise.
C10_QueuedActivates ==
    [][(SentBy(TRUE) /\ chat.status = "queued" /\ chat.counsellor = NoUser)
        => /\ chat'.status = "active"
           /\ chat'.started_at = now
           /\ chat'.ended_at = NULL
           /\ last'.activated
           /\ IF counsellors # {}
              THEN chat'.counsellor \in counsellors
              ELSE chat'.counsellor = NoUser]_vars

\* C10 witness: the first requester message activated a queued chat and a
\* counsellor was assigned by the same call.
C10_Witness ==
    /\ last.op = "submit"
    /\ last.result = "sent"
    /\ last.actor = chat.user
    /\ last.from = "queued"
    /\ last.activated
    /\ chat.status = "active"
    /\ chat.counsellor \in counsellors
    /\ chat.started_at = now
    /\ Len(messages) = 1

\* C11: a requester message to a chat that is queued, completed, inactive or
\* cancelled, however long the requester has been silent, leaves the stored
\* chat active with ended_at cleared and reports activated.
C11_RequesterMessageActivates ==
    [][(SentBy(TRUE)
          /\ chat.status \in {"queued", "completed", "inactive", "cancelled"})
        => /\ chat'.status = "active"
           /\ chat'.ended_at = NULL
           /\ last'.activated]_vars

\* C12: a chat that is queued, active or inactive has no ended_at.
C12_OpenChatHasNoEnd ==
    chat.status \in {"queued", "active", "inactive"} => chat.ended_at = NULL

\* C13: the sweep and save_message are serialized on the chat row: the sweep
\* never marks a chat inactive from a last_user_activity that a committed
\* requester message has replaced since the sweep read it, so it never
\* overwrites what that message wrote.
C13_SweepSerializedWithMessages ==
    [][(last'.op = "sweep" /\ jobs.sweep.busy)
        => jobs.sweep.row.last_user_activity = chat.last_user_activity]_vars

\* C14: once every wallet writer has finished, the balance equals the opening
\* balance plus the credits minus the debits that reported success.
C14_LedgerBalanced ==
    (~jobs.accrue.busy /\ ~jobs.recharge.busy) => wallet = ledger

\* a step in which save_message returns for a frame whose key (sender,
\* client_message_id) is already stored, or that it reports as a duplicate
DuplicateStep ==
    /\ last'.op = "submit"
    /\ \/ last'.result = "duplicate"
       \/ (last'.cmid # "none" /\ RowsWithKey(last'.actor, last'.cmid) # {})

\* C15: a save_message call that meets a duplicate creates no message row and
\* leaves every field of the chat, the wallet and the debits unchanged.
C15_DuplicateChangesNothing ==
    [][DuplicateStep
        => /\ messages' = messages
           /\ chat' = chat
           /\ wallet' = wallet
           /\ debited' = debited
           /\ ledger' = ledger]_vars

\* C15 witness: a frame carrying a stored key came back as a duplicate.
C15_Witness ==
    /\ last.op = "submit"
    /\ last.result = "duplicate"
    /\ last.cmid # "none"
    /\ RowsWithKey(last.actor, last.cmid) # {}

\* positions of the gateway's history that hold an entry of this kind for
\* the message with this id
EventsOf(kind, id) ==
    {i \in 1..Len(events) : events[i].kind = kind /\ events[i].id = id}

\* the message with this id is stored and no connection is still handling
\* the frame that created it
Finished(id) ==
    /\ id \in 1..Len(messages)
    /\ \A p \in Conns : arg[p].id # id

\* C16: every message that was broadcast to the chat group was acknowledged
\* to the sending connection before, with its message id, whether or not the
\* frame carried a client_message_id.
C16_NewMessageAcknowledged ==
    \A i \in 1..Len(events) :
        events[i].kind = "message"
            => \E j \in 1..i : /\ events[j].kind = "ack"
                               /\ events[j].status = "sent"
                               /\ events[j].id = events[i].id
                               /\ events[j].conn = events[i].conn

\* C17: for one frame the gateway's events come in the order commit,
\* acknowledgement, group broadcast, counselor_queue broadcast: nothing is
\* sent for a message before its row is stored and the row lock released, an
\* acknowledgement never follows the broadcast of its message, and the status
\* change follows the broadcast and is sent only for an activating message.
C17_EventOrder ==
    /\ \A p \in Conns :
          pc[p] \in {"saved", "acked", "notify"}
              => lock # p /\ arg[p].id \in 1..Len(messages)
    /\ \A i \in 1..Len(events) :
          LET e == events[i] IN
          /\ (e.kind \in {"message", "status"} \/ (e.kind = "ack" /\ e.status = "sent"))
                => /\ e.id \in 1..Len(messages)
                   /\ \E j \in 1..(i - 1) : /\ events[j].kind = "saved"
                                            /\ events[j].id = e.id
                                            /\ events[j].conn = e.conn
          /\ e.kind = "message"
                => \A j \in (i + 1)..Len(events) :
                      ~(events[j].kind = "ack" /\ events[j].id = e.id)
          /\ e.kind = "status"
                => /\ \E j \in 1..(i - 1) : /\ events[j].kind = "message"
                                            /\ events[j].id = e.id
                   /\ \E j \in 1..(i - 1) : /\ events[j].kind = "saved"
                                            /\ events[j].id = e.id
                                            /\ events[j].status = "activated"

\* C17 witness: one frame produced all four events.
C17_Witness ==
    \E id \in 1..Len(messages) :
        /\ EventsOf("saved", id) # {}
        /\ EventsOf("ack", id) # {}
        /\ EventsOf("message", id) # {}
        /\ EventsOf("status", id) # {}

\* C18: when save_message returns the duplicate result, the gateway sends the
\* sender one acknowledgement with status duplicate and no message id,
\* nothing else, and the connection has nothing left to send for the frame.
C18_DuplicateOnlyAcknowledged ==
    [][(last'.op = "submit" /\ last'.result = "duplicate")
        => /\ Len(events') = Len(events) + 1
           /\ SubSeq(events', 1, Len(events)) = events
           /\ events'[Len(events')].kind = "ack"
           /\ events'[Len(events')].status = "duplicate"
           /\ events'[Len(events')].id = NULL
           /\ \A p \in Conns : pc'[p] \in {"saved", "acked", "notify"} => pc[p] = pc'[p]]_vars

\* C18 witness: the last step acknowledged a duplicate.
C18_Witness ==
    /\ last.op = "submit"
    /\ last.result = "duplicate"
    /\ Len(events) > 0
    /\ events[Len(events)].status = "duplicate"

C20_BroadcastInCommitOrder ==
    \A i, j \in 1..Len(events) :
        (i < j /\ events[i].kind = "message" /\ events[j].kind = "message")
            => events[i].id < events[j].id

\* C21: a websocket whose credential is anonymous, or whose account is neither
\* the chat's user nor its counsellor when connect runs, is closed with no
\* group joined and without any change to the database; a closed websocket
\* stays closed, handles no frame and nothing is sent on its behalf.
C21_RejectedNeverJoins ==
    [][\A p \in Conns :
        /\ (/\ conn[p].state = "new"
            /\ conn'[p].state # "new"
            /\ \/ conn'[p].user = Anonymous
               \/ (conn'[p].user # chat.user /\ conn'[p].user # chat.counsellor))
              => /\ conn'[p].state = "closed"
                 /\ conn'[p].groups = {}
                 /\ chat' = chat /\ messages' = messages /\ wallet' = wallet
                 /\ events' = events
        /\ conn[p].state = "closed"
              => /\ conn'[p] = conn[p]
                 /\ pc'[p] = "idle"
                 /\ arg'[p] = NoFrame
                 /\ \A i \in 1..Len(events') : events'[i].conn # p]_vars

\* C21 witness: an account that is not a party of the chat and an anonymous
\* credential were both turned away.
C21_Witness ==
    \E p, q \in Conns :
        /\ conn[p].state = "closed" /\ conn[p].user = Anonymous
        /\ conn[q].state = "closed" /\ conn[q].user \in Staff

\* the time up to which a chat is billed: ended_at if set, else the clock
BilledUntil == IF chat.ended_at # NULL THEN chat.ended_at ELSE now

\* the least whole number of minutes that covers this many seconds
MinutesCovering(seconds) ==
    CHOOSE n \in -100..100 : 60 * n >= seconds /\ 60 * (n - 1) < seconds

C23_MinimumOneMinute ==
    (chat.started_at # NULL /\ chat.ended_at # NULL)
        => /\ calculate_chat_duration_minutes(chat, now) >= 1
           /\ calculate_chat_billing(chat, now) >= 1

\* C24: SessionEndView called by the chat's user or its counsellor on an
\* active or inactive chat completes it, sets ended_at to now only if it was
\* unset and started_at to now only if it was unset, and runs the settlement;
\* called by any other account it changes neither the chat nor the wallet.
C24_EndSessionCompletes ==
    [][last'.op = "end"
        => IF last'.actor = chat.user
              \/ (chat.counsellor # NoUser /\ last'.actor = chat.counsellor)
           THEN chat.status \in {"active", "inactive"}
                  => /\ chat'.status = "completed"
                     /\ chat'.ended_at = IF chat.ended_at = NULL THEN now
                                         ELSE chat.ended_at
                     /\ chat'.started_at = IF chat.started_at = NULL THEN now
                                           ELSE chat.started_at
                     /\ last'.settle.ran
           ELSE chat' = chat /\ wallet' = wallet /\ last'.result = "denied"]_vars

\* a step leaves the database, the row lock and every connection's position
\* inside receive as they were
NothingStored ==
    /\ chat' = chat /\ messages' = messages /\ wallet' = wallet
    /\ upcoming' = upcoming /\ lock' = lock /\ pc' = pc /\ arg' = arg

\* C25: a frame whose text is empty after trimming is dropped: nothing is
\* sent and nothing changes; a frame whose trimmed text is longer than 5000
\* characters gets one error frame on the sending connection and changes
\* nothing else; receive refuses no other frame, so a text of exactly 5000
\* characters goes to save_message, trimmed.
C25_EmptyAndOversizedFrames ==
    [][/\ last'.op = "frame"
          => /\ NothingStored
             /\ last'.text.len = 0 \/ last'.text.len > 5000
             /\ last'.text.len = 0 => events' = events
             /\ last'.text.len > 5000
                   => /\ Len(events') = Len(events) + 1
                      /\ SubSeq(events', 1, Len(events)) = events
                      /\ events'[Len(events')].kind = "error"
                      /\ conn[events'[Len(events')].conn].user = last'.actor
       /\ last'.op = "receive"
          => \E p \in Conns :
                /\ pc[p] = "idle" /\ pc'[p] = "waiting"
                /\ arg'[p].text.len \in 1..5000
                /\ arg'[p].text.lead = 0 /\ arg'[p].text.trail = 0]_vars

\* C25 witness: an oversized frame was answered with an error and a frame of
\* exactly 5000 characters is on its way to save_message.
C25_Witness ==
    /\ \E i \in 1..Len(events) :
          events[i].kind = "error" /\ events[i].status = "too_long"
    /\ \E p \in Conns : pc[p] = "waiting" /\ arg[p].text.len = 5000

\* the requester of an open session has been silent for an hour or more
SilentForAnHour ==
    /\ chat.status \in {"active", "inactive"}
    /\ chat.last_user_activity # NULL
    /\ now - chat.last_user_activity >= ONE_HOUR

\* C26: a session whose requester has been silent for 60 minutes or more is
\* eventually completed and billed, or the requester comes back: with the
\* sweep and the accrual scheduled fairly it does not stay open and silent
\* for ever
C26_SilentSessionCompleted ==
    SilentForAnHour ~> \/ chat.status = "completed" /\ chat.is_billed
                       \/ ~SilentForAnHour

\* connection p leaves save_message with an exception
FailedOn(p) ==
    /\ pc[p] = "checked"
    /\ pc'[p] = "idle"
    /\ last'.op = "submit"
    /\ last'.result = "failed"

\* C27: when save_message fails, also after its status logic has run, the
\* stored chat, the message log, the wallet and the scheduled session are
\* what they were before the call, and the only frame is one error frame on
\* the sender's connection
C27_FailedSubmitChangesNothing ==
    [][\A p \in Conns :
          FailedOn(p)
          => /\ chat' = chat
             /\ messages' = messages
             /\ wallet' = wallet
             /\ upcoming' = upcoming
             /\ lock' = NoConn
             /\ Len(events') = Len(events) + 1
             /\ SubSeq(events', 1, Len(events)) = events
             /\ events'[Len(events')].kind = "error"
             /\ events'[Len(events')].conn = p
             /\ conn[p].user = last'.actor]_vars

\* the requester's message on a queued chat, which would have activated the
\* chat, has failed
C27_Witness ==
    /\ last.op = "submit"
    /\ last.result = "failed"
    /\ last.actor = ChatUser
    /\ chat.status = "queued"
    /\ save_message(chat, ChatUser, wallet, counsellors, now).chat.status = "active"
    /\ Len(events) > 0
    /\ events[Len(events)].kind = "error"
    /\ events[Len(events)].status = "failed"

\* C28: process_chat_billing acts on a chat only while it is active with
\* started_at set; when the amount owed exceeds billed_amount and the wallet
\* covers the difference it debits exactly the difference and sets
\* billed_amount to the amount owed, changing nothing else of the chat but
\* duration_minutes and never is_billed; otherwise the wallet, the ledger and
\* the chat are unchanged.
C28_AccrueActive ==
    [][last'.op = "accrue"
        => LET amount_owed == calculate_chat_billing(chat, now)
               delta == amount_owed - chat.billed_amount
           IN  /\ chat.status = "active"
               /\ chat.started_at # NULL
               /\ chat'.is_billed = chat.is_billed
               /\ [chat' EXCEPT !.billed_amount = 0, !.duration_minutes = 0]
                     = [chat EXCEPT !.billed_amount = 0, !.duration_minutes = 0]
               /\ IF delta > 0 /\ wallet >= delta
                  THEN /\ wallet' = wallet - delta
                       /\ debited' = debited + delta
                       /\ chat'.billed_amount = amount_owed
                  ELSE /\ wallet' = wallet
                       /\ debited' = debited
                       /\ chat' = chat]_vars

\* C28 witness: the accrual has debited an active chat for the minutes run so
\* far and left is_billed false
C28_Witness ==
    /\ last.op = "accrue"
    /\ last.result = "deducted"
    /\ chat.status = "active"
    /\ chat.billed_amount = calculate_chat_billing(chat, now)
    /\ chat.billed_amount > 0
    /\ debited = chat.billed_amount
    /\ ~chat.is_billed

\* C29: after every requester message that save_message has stored, whatever
\* the status it found, the chat row's last_user_activity is the time of that
\* message
C29_RequesterActivityStored ==
    [][SentBy(TRUE) => chat'.last_user_activity = now]_vars

\* C30: a counsellor's message never makes the chat active and never reports
\* an activation; on a chat that is queued, inactive, completed or cancelled
\* it changes no field of the chat row and only appends the message
C30_CounsellorNeverActivates ==
    [][SentBy(FALSE)
        => /\ ~last'.activated
           /\ chat.status # "active" => chat'.status # "active"
           /\ chat.status \in {"queued", "inactive", "completed", "cancelled"}
                 => /\ chat'.status = chat.status
                    /\ chat'.ended_at = chat.ended_at
                    /\ chat'.started_at = chat.started_at
                    /\ chat'.last_user_activity = chat.last_user_activity
                    /\ wallet' = wallet
           /\ Len(messages') = Len(messages) + 1
           /\ SubSeq(messages', 1, Len(messages)) = messages
           /\ messages'[Len(messages')].sender = last'.actor]_vars

\* C30 witness: the counsellor has written to an inactive chat, which stays
\* inactive with its ended_at
C30_Witness ==
    /\ last.op = "submit"
    /\ last.result = "sent"
    /\ last.actor # chat.user
    /\ last.from = "inactive"
    /\ ~last.activated
    /\ chat.status = "inactive"
    /\ chat.ended_at # NULL
    /\ Len(messages) > 0
    /\ messages[Len(messages)].sender = last.actor

\* C31: every call of save_message that is neither a duplicate nor a failure
\* appends exactly one row to the message table, written by the sender at
\* the time of the call, whatever status the same call leaves the chat in
C31_OneRowPerAcceptedMessage ==
    [][(last'.op = "submit" /\ last'.result \notin {"duplicate", "failed"})
        => /\ Len(messages') = Len(messages) + 1
           /\ SubSeq(messages', 1, Len(messages)) = messages
           /\ messages'[Len(messages')].sender = last'.actor
           /\ messages'[Len(messages')].created_at = now
           /\ messages'[Len(messages')].client_message_id = last'.cmid]_vars

\* C31 witness: the call that stored the counsellor's message also moved the
\* chat out of active
C31_Witness ==
    /\ last.op = "submit"
    /\ last.result = "sent"
    /\ last.from = "active"
    /\ chat.status = "inactive"
    /\ Len(messages) = 2
    /\ messages[2].sender # chat.user
    /\ messages[2].created_at = now

\* a row of the same sender with the same text created two seconds ago or less
RecentSameText(sender, text) ==
    \E i \in 1..Len(messages) :
        /\ messages[i].sender = sender
        /\ messages[i].text = text
        /\ now - messages[i].created_at <= 2

\* C32: a frame without client_message_id is a duplicate exactly when a row
\* of the same sender with the same text is at most two seconds old; a frame
\* with a client_message_id is a duplicate exactly when a row of the same
\* sender carries that key, whatever its text and age; a duplicate creates no
\* row and changes neither the chat nor the wallet
C32_DuplicateTests ==
    [][last'.op = "submit"
        => /\ last'.cmid = "none"
                 => (last'.result = "duplicate"
                       <=> RecentSameText(last'.actor, last'.text))
           /\ last'.cmid # "none"
                 => (last'.result = "duplicate"
                       <=> RowsWithKey(last'.actor, last'.cmid) # {})
           /\ last'.result = "duplicate"
                 => /\ messages' = messages
                    /\ chat' = chat
                    /\ wallet' = wallet]_vars

\* C32 witness: two rows of one sender with the same text, created within
\* two seconds of each other under different keys
C32_Witness ==
    /\ Len(messages) = 2
    /\ messages[1].sender = messages[2].sender
    /\ messages[1].text = messages[2].text
    /\ messages[2].created_at - messages[1].created_at <= 2
    /\ messages[1].client_message_id = "k1"
    /\ messages[2].client_message_id = "k2"

\* C33: the sender of every stored message is the chat's user or the chat's
\* counsellor
C33_SendersAreParties ==
    \A i \in 1..Len(messages) :
        \/ messages[i].sender = chat.user
        \/ messages[i].sender = chat.counsellor

\* C34: when the auto-start of the UpcomingSession fails during an
\* activating call of save_message, the call still succeeds: the chat is
\* active, the message is appended and activated is reported
C34_SessionErrorTolerated ==
    [][(last'.op = "submit" /\ last'.session_error # "none")
        => /\ last'.result = "sent"
           /\ last'.activated
           /\ chat'.status = "active"
           /\ Len(messages') = Len(messages) + 1
           /\ messages'[Len(messages')].sender = last'.actor]_vars

\* the connections a group_send to the group reaches
Members(group) == {p \in Conns : group \in conn[p].groups}

C36_BalanceNeverNegative == wallet >= 0

\* C36 witness: a usage that read the balance before another debit was
\* written has emptied the wallet; more was reported as debited than the
\* wallet ever held
C36_Witness ==
    /\ last.op = "usage"
    /\ wallet = 0
    /\ ledger < 0
    /\ debited > 0

\* C37: a chat whose status is active has is_billed false
C37_ActiveIsUnbilled == chat.status = "active" => ~chat.is_billed

\* C38: once started_at is set no step changes it, and once a counsellor is
\* assigned no step changes it, also when ChatAcceptView interleaves with a
\* requester message that auto-assigns and activates the queued chat
C38_StartAndCounsellorFixed ==
    [][/\ chat.started_at # NULL => chat'.started_at = chat.started_at
       /\ chat.counsellor # NoUser => chat'.counsellor = chat.counsellor]_vars

C40_EndNotBeforeStart ==
    (chat.started_at # NULL /\ chat.ended_at # NULL)
        => chat.ended_at >= chat.started_at

====
